---- MODULE Spec2Model ----
(***************************************************************************)
(* BookmarkDatabase (src/database/database.py): a SQLite file holding the  *)
(* tables bookmarks, tags, bookmark_tags and the FTS5 virtual table        *)
(* bookmark_fts (external content: content=bookmarks), kept up to date by  *)
(* the triggers bookmarks_ai / bookmarks_au / bookmarks_ad.                *)
(*                                                                         *)
(* Text values are strings; NULL stands for Python None / SQL NULL.  A     *)
(* search query is the sequence of lexemes the FTS5 query lexer produces.  *)
(* The relevance order of a search result (ORDER BY rank) is not modelled: *)
(* a search result is the set of rows it holds.                            *)
(***************************************************************************)
EXTENDS Integers, Sequences, FiniteSets, TLC

(* ------------------------------ bounds -------------------------------- *)
\* number of add_bookmark calls (each reads datetime.now() once)
MaxAdds == 2
\* number of BookmarkDatabase(db_file) constructions on the same file
MaxOpens == 2

(* ------------------------------ inputs -------------------------------- *)
NULL == "NULL"

Titles == {"Rust Guide", "Guide"}
Urls == {"u1", "u2"}
\* description, content_snippet, source: all omitted, or all supplied
Optionals == {<<NULL, NULL, NULL>>, <<"rust", "GUIDE", "import">>}
TagNames == {"t"}

\* FTS5 query lexemes: barewords and the (case-sensitive) operators
QueryWords == {"rust", "Guide"}
Operators == {"AND", "OR"}
Lexemes == QueryWords \cup Operators
Queries ==
    {<<>>}
    \cup {<<a>> : a \in Lexemes}
    \cup {<<a, b>> : a \in Lexemes, b \in Lexemes}
    \cup {<<a, o, b>> : a \in QueryWords, o \in Operators, b \in QueryWords}

(* ------------------------------ state --------------------------------- *)
VARIABLES
    has_schema,     \* the file holds bookmark_fts and the three triggers
    bookmarks,      \* table bookmarks: a set of rows
    tags,           \* table tags: a set of rows
    bookmark_tags,  \* table bookmark_tags: a set of rows
    fts_index,      \* bookmark_fts inverted index: postings [rowid, col, term]
    fts_docsize,    \* bookmark_fts_docsize: the rowids that own an index entry
    fts_nrow,       \* bookmark_fts "averages" record: number of rows indexed
    opens,          \* how many times BookmarkDatabase(db_file) has run
    now,            \* datetime.now(), a logical clock
    last,           \* the last call: operation, arguments, result or exception
    pc,             \* per caller: "idle", "called" or "locked" (in a write transaction)
    req,            \* per caller: the call in progress
    writer,         \* the callers holding SQLite's write (RESERVED) lock: none or one
    rets,           \* per caller: the outcome of its last finished call
    issued          \* history: every id add_bookmark has returned so far

vars == <<has_schema, bookmarks, tags, bookmark_tags, fts_index, fts_docsize,
          fts_nrow, opens, now, last, pc, req, writer, rets, issued>>

\* the state of concurrent callers
conc == <<pc, req, writer, rets>>

store == <<bookmarks, tags, bookmark_tags, fts_index, fts_docsize, fts_nrow>>

(* --------------------------- the tokenizer ---------------------------- *)
\* unicode61 splits a text at the characters that are not alphanumeric ...
Words(text) ==
    CASE text = "Rust Guide" -> <<"Rust", "Guide">>
      [] text = NULL -> <<>>
      [] OTHER -> <<text>>

\* ... and folds each word to lower case
Fold(word) ==
    CASE word = "Rust" -> "rust"
      [] word = "Guide" -> "guide"
      [] word = "GUIDE" -> "guide"
      [] OTHER -> word

Tokens(text) == {Fold(Words(text)[i]) : i \in DOMAIN Words(text)}

FtsColumns == {"title", "description", "content_snippet"}

\* the postings one FTS5 row (rowid, title, description, content_snippet) adds
Postings(rowid, title, description, content_snippet) ==
    {[rowid |-> rowid, col |-> "title", term |-> t] : t \in Tokens(title)}
    \cup {[rowid |-> rowid, col |-> "description", term |-> t] :
              t \in Tokens(description)}
    \cup {[rowid |-> rowid, col |-> "content_snippet", term |-> t] :
              t \in Tokens(content_snippet)}

RowPostings(b) == Postings(b.id, b.title, b.description, b.content_snippet)

(* ----------------------------- the schema ----------------------------- *)
Ids(rows) == {r.id : r \in rows}

Max(S) == CHOOSE x \in S : \A y \in S : y <= x

\* (mutant) the largest rowid in the table, not one more
NextRowidNoIncrement(rows) == IF rows = {} THEN 1 ELSE Max(Ids(rows))

\* id INTEGER PRIMARY KEY (no AUTOINCREMENT): the rowid is one more than the
\* largest rowid in the table
NextRowid(rows) == IF rows = {} THEN 1 ELSE Max(Ids(rows)) + 1

\* (mutant) the url column declared without UNIQUE
BookmarkConstraintsNoUnique(row) ==
    /\ row.url # NULL
    /\ row.title # NULL

\* url TEXT UNIQUE NOT NULL, title TEXT NOT NULL, date_added TIMESTAMP NOT NULL
BookmarkConstraintsOk(row) ==
    /\ row.url # NULL
    /\ row.title # NULL
    /\ \A b \in bookmarks : b.url # row.url

\* INSERT INTO bookmark_fts(rowid, title, description, content_snippet): the
\* table has external content, so FTS5 adds the postings and replaces the
\* docsize row of that rowid without looking for an older entry
FtsInsertIndex(idx, rows) == idx \cup UNION {RowPostings(b) : b \in rows}

FtsInsertDocsize(docsize, rows) == docsize \cup Ids(rows)

FtsInsertNrow(nrow, rows) == nrow + Cardinality(rows)

\* (mutant) bookmarks_ai indexing description and content_snippet only
bookmarks_ai_no_title(idx, new) ==
    idx \cup Postings(new.id, NULL, new.description, new.content_snippet)

\* trigger bookmarks_ai AFTER INSERT ON bookmarks
bookmarks_ai_index(idx, new) == FtsInsertIndex(idx, {new})

\* trigger bookmarks_ad AFTER DELETE ON bookmarks:
\*   DELETE FROM bookmark_fts WHERE rowid = old.id
\* An external-content FTS5 table reads its rows from the content table, and
\* the row old.id has just left it: the DELETE finds no row and removes nothing
FtsRowsVisible(rows, rowid) == {b \in rows : b.id = rowid}

bookmarks_ad_index(idx, rows_after, old) ==
    idx \ UNION {RowPostings(b) : b \in FtsRowsVisible(rows_after, old.id)}

bookmarks_ad_docsize(docsize, rows_after, old) ==
    docsize \ Ids(FtsRowsVisible(rows_after, old.id))

bookmarks_ad_nrow(nrow, rows_after, old) ==
    nrow - Cardinality(FtsRowsVisible(rows_after, old.id))

(* ------------------------------ Init ---------------------------------- *)
\* a file from before search indexing existed: a bookmarks table, no index
LegacyRow ==
    [id |-> 1, url |-> "u1", title |-> "Guide", description |-> NULL,
     date_added |-> 0, content_snippet |-> NULL, source |-> NULL]

NoCall == [op |-> "none", args |-> <<>>, ret |-> NULL, exc |-> NULL]

\* threads or processes calling one BookmarkDatabase
Callers == {"c1", "c2"}

InitConc ==
    /\ pc = [c \in Callers |-> "idle"]
    /\ req = [c \in Callers |-> NoCall]
    /\ writer = {}
    /\ rets = [c \in Callers |-> NoCall]

\* the file before the first BookmarkDatabase(db_file): absent, or a legacy file
InitFile ==
    /\ has_schema = FALSE
    /\ bookmarks \in {{}, {LegacyRow}}
    /\ tags = {}
    /\ bookmark_tags = {}
    /\ fts_index = {}
    /\ fts_docsize = {}
    /\ fts_nrow = 0
    /\ opens = 0
    /\ now = 1
    /\ last = NoCall
    /\ InitConc
    /\ issued = Ids(bookmarks)

\* a BookmarkDatabase constructed on a new file
Init ==
    /\ has_schema = TRUE
    /\ bookmarks = {}
    /\ tags = {}
    /\ bookmark_tags = {}
    /\ fts_index = {}
    /\ fts_docsize = {}
    /\ fts_nrow = 0
    /\ opens = 1
    /\ now = 1
    /\ last = NoCall
    /\ InitConc
    /\ issued = {}

(* --------------------------- __init__ --------------------------------- *)
\* _create_tables: the CREATE ... IF NOT EXISTS statements, then
\*   INSERT OR IGNORE INTO bookmark_fts(rowid, ...) SELECT id, ... FROM bookmarks
Open ==
    /\ opens < MaxOpens
    /\ has_schema' = TRUE
    /\ fts_index' = FtsInsertIndex(fts_index, bookmarks)
    /\ fts_docsize' = FtsInsertDocsize(fts_docsize, bookmarks)
    /\ fts_nrow' = FtsInsertNrow(fts_nrow, bookmarks)
    /\ opens' = opens + 1
    /\ last' = [op |-> "open", args |-> <<>>, ret |-> NULL, exc |-> NULL]
    /\ UNCHANGED <<bookmarks, tags, bookmark_tags, now, issued>>

(* --------------------------- add_bookmark ----------------------------- *)
\* (mutant) the VALUES tuple with title and url in the wrong order
NewRowSwapped(title, url, description, content_snippet, source) ==
    [id |-> NextRowid(bookmarks), url |-> title, title |-> url,
     description |-> description, date_added |-> now,
     content_snippet |-> content_snippet, source |-> source]

NewRow(title, url, description, content_snippet, source) ==
    [id |-> NextRowid(bookmarks), url |-> url, title |-> title,
     description |-> description, date_added |-> now,
     content_snippet |-> content_snippet, source |-> source]

\* fault: the connection, the statement or the commit raises
\* sqlite3.OperationalError (disk fault, database is locked)
AddBookmark(title, url, description, content_snippet, source, fault) ==
    LET row == NewRow(title, url, description, content_snippet, source)
        args == <<title, url, description, content_snippet, source>>
    IN  /\ opens > 0
        /\ now <= MaxAdds
        /\ now' = now + 1
        /\ IF fault
           THEN \* get_connection rolls back and re-raises; not an IntegrityError
                /\ last' = [op |-> "add_bookmark", args |-> args, ret |-> NULL,
                            exc |-> "OperationalError", fault |-> TRUE]
                /\ UNCHANGED <<store, issued>>
           ELSE IF ~BookmarkConstraintsOk(row)
           THEN \* sqlite3.IntegrityError -> rollback -> DuplicateBookmarkError
                /\ last' = [op |-> "add_bookmark", args |-> args, ret |-> NULL,
                            exc |-> "DuplicateBookmarkError", fault |-> FALSE]
                /\ UNCHANGED <<store, issued>>
           ELSE /\ bookmarks' = bookmarks \cup {row}
                /\ fts_index' = bookmarks_ai_index(fts_index, row)
                /\ fts_docsize' = FtsInsertDocsize(fts_docsize, {row})
                /\ fts_nrow' = FtsInsertNrow(fts_nrow, {row})
                /\ last' = [op |-> "add_bookmark", args |-> args, ret |-> row.id,
                            exc |-> NULL, fault |-> FALSE]
                /\ issued' = issued \cup {row.id}
                /\ UNCHANGED <<tags, bookmark_tags>>
        /\ UNCHANGED <<has_schema, opens>>

(* --------------------------- get_bookmarks ---------------------------- *)
RECURSIVE ByIdDesc(_)
\* (mutant) SELECT * FROM bookmarks ORDER BY id DESC
ByIdDesc(rows) ==
    IF rows = {} THEN <<>>
    ELSE LET first == CHOOSE r \in rows : \A o \in rows : r.id >= o.id
         IN  <<first>> \o ByIdDesc(rows \ {first})

RECURSIVE ById(_)
\* SELECT * FROM bookmarks: the rows in rowid order
ById(rows) ==
    IF rows = {} THEN <<>>
    ELSE LET first == CHOOSE r \in rows : \A o \in rows : r.id <= o.id
         IN  <<first>> \o ById(rows \ {first})

get_bookmarks_rows == ById(bookmarks)

GetBookmarks(fault) ==
    /\ opens > 0
    /\ last' = IF fault
               THEN \* except Exception: print, return []
                    [op |-> "get_bookmarks", args |-> <<>>, ret |-> <<>>,
                     exc |-> NULL, fault |-> TRUE]
               ELSE [op |-> "get_bookmarks", args |-> <<>>,
                     ret |-> get_bookmarks_rows, exc |-> NULL, fault |-> FALSE]
    /\ UNCHANGED <<has_schema, store, opens, now, issued>>

(* --------------------------- delete_bookmark -------------------------- *)
\* (mutant) DELETE FROM bookmarks WHERE id <= ?
DeletedRowsUpTo(bookmark_id) == {b \in bookmarks : b.id <= bookmark_id}

\* DELETE FROM bookmarks WHERE id = ?
DeletedRows(bookmark_id) == {b \in bookmarks : b.id = bookmark_id}

\* sqlite3.connect leaves PRAGMA foreign_keys off, and get_connection never
\* turns it on: ON DELETE CASCADE of bookmark_tags is not enforced
foreign_keys == FALSE

CascadeBookmarkTags(assocs, bookmark_id) ==
    IF foreign_keys THEN {a \in assocs : a.bookmark_id # bookmark_id}
    ELSE assocs

RECURSIVE AfterDeleteTriggers(_, _, _)
\* bookmarks_ad, once for each deleted row; fts = <<index, docsize, nrow>>
AfterDeleteTriggers(fts, rows_after, olds) ==
    IF olds = {} THEN fts
    ELSE LET old == CHOOSE o \in olds : TRUE
         IN  AfterDeleteTriggers(
                 <<bookmarks_ad_index(fts[1], rows_after, old),
                   bookmarks_ad_docsize(fts[2], rows_after, old),
                   bookmarks_ad_nrow(fts[3], rows_after, old)>>,
                 rows_after, olds \ {old})

DeleteBookmark(bookmark_id, fault) ==
    LET olds == DeletedRows(bookmark_id)
        fts == AfterDeleteTriggers(<<fts_index, fts_docsize, fts_nrow>>,
                                   bookmarks \ olds, olds)
    IN  /\ opens > 0
        /\ IF fault
           THEN \* rollback; except Exception: print, return False
                /\ last' = [op |-> "delete_bookmark", args |-> <<bookmark_id>>,
                            ret |-> FALSE, exc |-> NULL, fault |-> TRUE]
                /\ UNCHANGED store
           ELSE /\ bookmarks' = bookmarks \ olds
                /\ bookmark_tags' = CascadeBookmarkTags(bookmark_tags, bookmark_id)
                /\ fts_index' = fts[1]
                /\ fts_docsize' = fts[2]
                /\ fts_nrow' = fts[3]
                \* cursor.rowcount > 0
                /\ last' = [op |-> "delete_bookmark", args |-> <<bookmark_id>>,
                            ret |-> (Cardinality(olds) > 0), exc |-> NULL,
                            fault |-> FALSE]
                /\ UNCHANGED tags
        /\ UNCHANGED <<has_schema, opens, now, issued>>

(* --------------------------- search_bookmarks ------------------------- *)
IsOperator(lexeme) == lexeme \in Operators

\* the FTS5 query grammar over barewords and the operators AND, OR: a query is
\* malformed when it is empty, starts or ends with an operator, or holds two
\* operators in a row (fts5: syntax error)
WellFormed(query) ==
    /\ Len(query) > 0
    /\ ~IsOperator(query[1])
    /\ ~IsOperator(query[Len(query)])
    /\ \A i \in 1 .. (Len(query) - 1) :
           ~(IsOperator(query[i]) /\ IsOperator(query[i + 1]))

RECURSIVE SplitOn(_, _)
\* the pieces of a query between the occurrences of one operator
SplitOn(query, operator) ==
    IF \A i \in DOMAIN query : query[i] # operator THEN <<query>>
    ELSE LET i == CHOOSE k \in DOMAIN query :
                     /\ query[k] = operator
                     /\ \A j \in 1 .. (k - 1) : query[j] # operator
         IN  <<SubSeq(query, 1, i - 1)>>
                 \o SplitOn(SubSeq(query, i + 1, Len(query)), operator)

\* a bareword is tokenized like the indexed text and matches in any column
TermRowids(idx, word) == {p.rowid : p \in {x \in idx : x.term = Fold(word)}}

\* adjacent barewords: implicit AND, binding tighter than every operator
MatchWords(idx, words) ==
    {r \in TermRowids(idx, words[1]) :
        \A i \in DOMAIN words : r \in TermRowids(idx, words[i])}

MatchAnd(idx, part) ==
    LET ps == SplitOn(part, "AND")
    IN  {r \in MatchWords(idx, ps[1]) :
            \A i \in DOMAIN ps : r \in MatchWords(idx, ps[i])}

\* bookmark_fts MATCH ?: the rowids of the index the query selects
Match(idx, query) ==
    LET ps == SplitOn(query, "OR")
    IN  UNION {MatchAnd(idx, ps[i]) : i \in DOMAIN ps}

\* (mutant) LEFT JOIN bookmarks: a matched index entry whose bookmark row is
\* gone still yields a row
SearchLeftJoin(rows, rowids) ==
    {b \in rows : b.id \in rowids}
    \cup {[id |-> r, url |-> NULL, title |-> NULL, description |-> NULL,
           date_added |-> 0, content_snippet |-> NULL, source |-> NULL] :
              r \in rowids \ Ids(rows)}

\* SELECT b.* FROM bookmark_fts fts JOIN bookmarks b ON fts.rowid = b.id
\* WHERE bookmark_fts MATCH ?
SearchJoin(rows, rowids) == {b \in rows : b.id \in rowids}

\* what search_bookmarks returns: a malformed query raises
\* sqlite3.OperationalError inside the try, and the handler returns []
search_bookmarks(query) ==
    IF WellFormed(query) THEN SearchJoin(bookmarks, Match(fts_index, query))
    ELSE {}

SearchBookmarks(query, fault) ==
    /\ opens > 0
    /\ last' = IF fault
               THEN \* except Exception: print, return []
                    [op |-> "search_bookmarks", args |-> <<query>>, ret |-> {},
                     exc |-> NULL, fault |-> TRUE]
               ELSE [op |-> "search_bookmarks", args |-> <<query>>,
                     ret |-> search_bookmarks(query), exc |-> NULL,
                     fault |-> FALSE]
    /\ UNCHANGED <<has_schema, store, opens, now, issued>>

(* ------------------- tags and bookmark_tags (callers) ----------------- *)
\* The module has no method for tags: its callers write the two tables the
\* schema declares.  tags: id INTEGER PRIMARY KEY, name TEXT UNIQUE NOT NULL
InsertTag(name) ==
    /\ opens > 0
    /\ \A t \in tags : t.name # name
    /\ tags' = tags \cup {[id |-> NextRowid(tags), name |-> name,
                            category |-> NULL, auto_generated |-> FALSE]}
    /\ last' = [op |-> "insert_tag", args |-> <<name>>, ret |-> NextRowid(tags),
                exc |-> NULL]
    /\ UNCHANGED <<has_schema, bookmarks, bookmark_tags, fts_index, fts_docsize,
                   fts_nrow, opens, now, issued>>

\* bookmark_tags: PRIMARY KEY (bookmark_id, tag_id); a caller links a stored
\* bookmark to a stored tag
InsertBookmarkTag(bookmark_id, tag_id) ==
    /\ opens > 0
    /\ bookmark_id \in Ids(bookmarks)
    /\ tag_id \in Ids(tags)
    /\ \A a \in bookmark_tags :
           ~(a.bookmark_id = bookmark_id /\ a.tag_id = tag_id)
    /\ bookmark_tags' = bookmark_tags \cup
           {[bookmark_id |-> bookmark_id, tag_id |-> tag_id, confidence |-> NULL]}
    /\ last' = [op |-> "insert_bookmark_tag", args |-> <<bookmark_id, tag_id>>,
                ret |-> NULL, exc |-> NULL]
    /\ UNCHANGED <<has_schema, bookmarks, tags, fts_index, fts_docsize,
                   fts_nrow, opens, now, issued>>

(* --------------------------- specifications --------------------------- *)
\* the ids a caller may pass: every id handed out so far, and one never used
DeleteIds == 1 .. (MaxAdds + 2)

\* title and url are required; a caller may still pass None for either
AddArgs ==
    (Titles \X Urls \X Optionals)
    \cup {<<NULL, u, <<NULL, NULL, NULL>>>> : u \in Urls}
    \cup {<<t, NULL, <<NULL, NULL, NULL>>>> : t \in Titles}

\* one caller of one BookmarkDatabase, no storage fault
Next ==
    \/ \E a \in AddArgs :
          AddBookmark(a[1], a[2], a[3][1], a[3][2], a[3][3], FALSE) /\ UNCHANGED conc
    \/ GetBookmarks(FALSE) /\ UNCHANGED conc
    \/ \E i \in DeleteIds : DeleteBookmark(i, FALSE) /\ UNCHANGED conc
    \/ \E q \in Queries : SearchBookmarks(q, FALSE) /\ UNCHANGED conc

Spec == Init /\ [][Next]_vars

\* the same, from the file as it is before the first construction, and with
\* BookmarkDatabase(db_file) constructed again at any time
NextOpen ==
    \/ Open /\ UNCHANGED conc
    \/ \E a \in AddArgs :
          AddBookmark(a[1], a[2], a[3][1], a[3][2], a[3][3], FALSE) /\ UNCHANGED conc
    \/ GetBookmarks(FALSE) /\ UNCHANGED conc
    \/ \E i \in DeleteIds : DeleteBookmark(i, FALSE) /\ UNCHANGED conc
    \/ \E q \in Queries : SearchBookmarks(q, FALSE) /\ UNCHANGED conc

SpecOpen == InitFile /\ [][NextOpen]_vars

\* one caller and the callers that write tags and associations
NextTags ==
    \/ \E a \in AddArgs :
          AddBookmark(a[1], a[2], a[3][1], a[3][2], a[3][3], FALSE) /\ UNCHANGED conc
    \/ \E i \in DeleteIds : DeleteBookmark(i, FALSE) /\ UNCHANGED conc
    \/ \E n \in TagNames : InsertTag(n) /\ UNCHANGED conc
    \/ \E i \in DeleteIds, t \in 1 .. Cardinality(TagNames) :
          InsertBookmarkTag(i, t) /\ UNCHANGED conc

SpecTags == Init /\ [][NextTags]_vars

\* one caller; any call may hit a storage fault
NextFault ==
    \/ \E a \in AddArgs, f \in BOOLEAN :
          AddBookmark(a[1], a[2], a[3][1], a[3][2], a[3][3], f) /\ UNCHANGED conc
    \/ \E f \in BOOLEAN : GetBookmarks(f) /\ UNCHANGED conc
    \/ \E i \in DeleteIds, f \in BOOLEAN : DeleteBookmark(i, f) /\ UNCHANGED conc
    \/ \E q \in Queries, f \in BOOLEAN : SearchBookmarks(q, f) /\ UNCHANGED conc

SpecFault == Init /\ [][NextFault]_vars

(* --------------------------- concurrent callers ----------------------- *)
\* Every call opens its own connection (get_connection).  A write statement
\* starts a transaction and takes the database's write lock; its changes stay
\* in the connection until conn.commit() publishes them all at once.  A
\* caller that finds the lock taken waits (sqlite3.connect's default timeout)
\* and either gets it or gives up with sqlite3.OperationalError.
ConcCalls ==
    {[op |-> "add_bookmark", args |-> <<t, "u1", NULL, NULL, NULL>>] : t \in Titles}
    \cup {[op |-> "delete_bookmark", args |-> <<1>>],
          [op |-> "get_bookmarks", args |-> <<>>],
          [op |-> "search_bookmarks", args |-> <<<<"rust">>>>]}

IsWrite(r) == r.op \in {"add_bookmark", "delete_bookmark"}

\* the call's statement, run to its end on the committed state
Run(r, fault) ==
    CASE r.op = "add_bookmark" ->
            AddBookmark(r.args[1], r.args[2], r.args[3], r.args[4], r.args[5], fault)
      [] r.op = "delete_bookmark" -> DeleteBookmark(r.args[1], fault)
      [] r.op = "get_bookmarks" -> GetBookmarks(fault)
      [] r.op = "search_bookmarks" -> SearchBookmarks(r.args[1], fault)

Call(c, r) ==
    /\ pc[c] = "idle"
    /\ pc' = [pc EXCEPT ![c] = "called"]
    /\ req' = [req EXCEPT ![c] = r]
    /\ UNCHANGED <<has_schema, store, opens, now, last, writer, rets, issued>>

\* cursor.execute of the INSERT or DELETE: the write lock is free
Acquire(c) ==
    /\ pc[c] = "called"
    /\ IsWrite(req[c])
    /\ writer = {}
    /\ writer' = {c}
    /\ pc' = [pc EXCEPT ![c] = "locked"]
    /\ UNCHANGED <<has_schema, store, opens, now, last, req, rets, issued>>

\* the write lock stays taken until the timeout: database is locked
Busy(c) ==
    /\ pc[c] = "called"
    /\ IsWrite(req[c])
    /\ writer # {}
    /\ Run(req[c], TRUE)
    /\ pc' = [pc EXCEPT ![c] = "idle"]
    /\ rets' = [rets EXCEPT ![c] = last']
    /\ UNCHANGED <<req, writer>>

\* conn.commit() (or, after an IntegrityError, conn.rollback()), conn.close()
Commit(c) ==
    /\ pc[c] = "locked"
    /\ Run(req[c], FALSE)
    /\ writer' = {}
    /\ pc' = [pc EXCEPT ![c] = "idle"]
    /\ rets' = [rets EXCEPT ![c] = last']
    /\ UNCHANGED req

\* a SELECT reads the committed state, also while another caller holds the
\* write lock
Read(c) ==
    /\ pc[c] = "called"
    /\ ~IsWrite(req[c])
    /\ Run(req[c], FALSE)
    /\ pc' = [pc EXCEPT ![c] = "idle"]
    /\ rets' = [rets EXCEPT ![c] = last']
    /\ UNCHANGED <<req, writer>>

NextConc ==
    \/ \E c \in Callers, r \in ConcCalls : Call(c, r)
    \/ \E c \in Callers : Acquire(c)
    \/ \E c \in Callers : Busy(c)
    \/ \E c \in Callers : Commit(c)
    \/ \E c \in Callers : Read(c)

SpecConc == Init /\ [][NextConc]_vars

(* ------------------------------ claims -------------------------------- *)
StoredUrls == {b.url : b \in bookmarks}

IndexOf(rows) == UNION {RowPostings(b) : b \in rows}

\* C1: an add_bookmark whose url is already stored fails with
\* DuplicateBookmarkError and leaves get_bookmarks() and the search index
\* exactly as they were.
C1_DuplicateLeavesStoreUnchanged ==
    [][(last'.op = "add_bookmark" /\ last'.args[2] \in StoredUrls)
        => /\ last'.exc = "DuplicateBookmarkError"
           /\ get_bookmarks_rows' = get_bookmarks_rows
           /\ <<fts_index, fts_docsize, fts_nrow>>' = <<fts_index, fts_docsize, fts_nrow>>
      ]_vars

C1_Witness ==
    /\ last.op = "add_bookmark"
    /\ last.exc = "DuplicateBookmarkError"
    /\ last.args[1] # NULL
    /\ last.args[2] \in StoredUrls
    /\ \E b \in bookmarks : b.url = last.args[2] /\ b.title # last.args[1]

\* C2: the index holds exactly one entry for each stored bookmark, built
\* from its title, description and content_snippet, and no entry for an id
\* that is not in the bookmarks table.
C2_IndexInLockstep ==
    /\ fts_docsize = Ids(bookmarks)
    /\ fts_index = IndexOf(bookmarks)

\* C3: a stored bookmark is returned by a search for any token of its title;
\* a search returns stored rows only, and once delete_bookmark(id) has
\* returned true no search returns the row that had that id.
C3_TitleTokenSearch ==
    /\ \A b \in bookmarks : \A t \in Tokens(b.title) :
           b \in search_bookmarks(<<t>>)
    /\ \A q \in Queries : search_bookmarks(q) \subseteq bookmarks
    /\ (last.op = "delete_bookmark" /\ last.ret = TRUE)
         => \A q \in Queries : \A b \in search_bookmarks(q) :
                b.id # last.args[1]

\* a delete has returned true, the index still lists the deleted title, and
\* another bookmark is stored and found
C3_Witness ==
    /\ last.op = "delete_bookmark"
    /\ last.ret = TRUE
    /\ \E p \in fts_index : p.rowid = last.args[1] /\ p.col = "title"
    /\ \E b \in bookmarks : b \in search_bookmarks(<<"guide">>)

\* C4: no bookmark_tags row references a bookmark id that is not in the
\* bookmarks table.
C4_NoDanglingAssociation ==
    \A a \in bookmark_tags : a.bookmark_id \in Ids(bookmarks)

\* C5: constructing BookmarkDatabase on a file leaves bookmarks, tags and
\* associations unchanged and adds an index entry only for the rows that lack
\* one; constructing it again leaves the whole store as it was.
C5_OpenIdempotent ==
    [][(last'.op = "open")
        => /\ <<bookmarks, tags, bookmark_tags>>' = <<bookmarks, tags, bookmark_tags>>
           /\ fts_nrow' = fts_nrow
                 + Cardinality({b \in bookmarks : b.id \notin fts_docsize})
           /\ opens > 0 => store' = store
      ]_vars

\* C6: delete_bookmark(id) raises nothing; it returns false when no bookmark
\* has that id, and true when one has, and afterwards get_bookmarks() holds
\* no row with that id.
C6_DeleteResult ==
    [][(last'.op = "delete_bookmark")
        => /\ last'.exc = NULL
           /\ last'.ret = (last'.args[1] \in Ids(bookmarks))
           /\ \A i \in DOMAIN get_bookmarks_rows' :
                 get_bookmarks_rows'[i].id # last'.args[1]
      ]_vars

C6_Witness ==
    /\ last.op = "delete_bookmark"
    /\ last.ret = TRUE
    /\ last.args[1] \notin Ids(bookmarks)
    /\ bookmarks # {}

\* C7: after a successful add_bookmark, get_bookmarks() holds exactly one
\* row with the returned id; its title and url are the arguments, its
\* date_added is not null, its description, content_snippet and source are
\* the arguments (null when omitted); on an empty store it is the only row.
C7_AddThenGet ==
    [][(last'.op = "add_bookmark" /\ last'.exc = NULL)
        => LET rows == get_bookmarks_rows'
               hits == {i \in DOMAIN rows : rows[i].id = last'.ret}
           IN  /\ Cardinality(hits) = 1
               /\ \A i \in hits :
                     /\ rows[i].title = last'.args[1]
                     /\ rows[i].url = last'.args[2]
                     /\ rows[i].description = last'.args[3]
                     /\ rows[i].content_snippet = last'.args[4]
                     /\ rows[i].source = last'.args[5]
                     /\ rows[i].date_added \in Nat
               /\ Len(rows) = Cardinality(bookmarks) + 1
               /\ bookmarks = {} => Len(rows) = 1
      ]_vars

C7_Witness ==
    /\ last.op = "add_bookmark"
    /\ last.exc = NULL
    /\ last.args[3] = NULL
    /\ Len(get_bookmarks_rows) = 2
    /\ \E i \in DOMAIN get_bookmarks_rows :
          get_bookmarks_rows[i].id = last.ret /\ get_bookmarks_rows[i].source = NULL

\* what any caller reads now: the committed table and the committed index
IndexAgreesWithTable ==
    /\ Ids(bookmarks) = fts_docsize
    /\ \A b \in bookmarks : {p \in fts_index : p.rowid = b.id} = RowPostings(b)
    /\ \A p \in fts_index : p.rowid \in Ids(bookmarks)

\* C8: under any interleaving of callers, every state a caller can read has
\* the bookmarks table and the index in agreement, and a call that ended in
\* an error has left the store as it was.
C8_AtomicAndConsistent ==
    [][/\ IndexAgreesWithTable'
       /\ \A c \in Callers :
             (pc[c] # "idle" /\ pc'[c] = "idle" /\ rets'[c].exc # NULL)
                 => store' = store
      ]_vars

\* C9: search_bookmarks with a malformed query fails with an error
\* (InvalidQuery) instead of returning an empty result.
C9_MalformedQueryFails ==
    (last.op = "search_bookmarks" /\ ~WellFormed(last.args[1]))
        => last.exc # NULL

\* C10: an add_bookmark or delete_bookmark whose write fails reports an
\* error; it never returns an ordinary result.
C10_WriteFailureReported ==
    (last.op \in {"add_bookmark", "delete_bookmark"} /\ last.fault)
        => last.exc # NULL

\* C11: get_bookmarks() returns every stored bookmark, each exactly once, in
\* the order in which they were inserted.
C11_GetInInsertionOrder ==
    LET rows == get_bookmarks_rows
    IN  /\ {rows[i] : i \in DOMAIN rows} = bookmarks
        /\ Len(rows) = Cardinality(bookmarks)
        /\ \A i \in DOMAIN rows : \A j \in DOMAIN rows :
               i < j => rows[i].date_added < rows[j].date_added
        /\ last.op = "get_bookmarks" => last.ret = rows

C11_Witness ==
    /\ last.op = "get_bookmarks"
    /\ Len(last.ret) = 2
    /\ last.ret[1].date_added < last.ret[2].date_added

\* C12: under any interleaving of callers no two stored bookmarks share a
\* url, and an add_bookmark succeeds only when its url is not stored at the
\* moment it commits: of two concurrent adds of one url at most one succeeds.
C12_UrlUniqueUnderConcurrency ==
    [][/\ \A b1 \in bookmarks' : \A b2 \in bookmarks' :
              b1.url = b2.url => b1 = b2
       /\ \A c \in Callers :
             (/\ pc[c] # "idle"
              /\ pc'[c] = "idle"
              /\ req[c].op = "add_bookmark"
              /\ rets'[c].exc = NULL)
                 => req[c].args[2] \notin StoredUrls
      ]_vars

\* both callers have added the same url: one got an id, the other the error
C12_Witness ==
    \E c \in Callers : \E d \in Callers \ {c} :
        /\ rets[c].op = "add_bookmark"
        /\ rets[d].op = "add_bookmark"
        /\ rets[c].exc = NULL
        /\ rets[d].exc = "DuplicateBookmarkError"
        /\ rets[c].args[2] = rets[d].args[2]
        /\ rets[c].args[1] # rets[d].args[1]
        /\ Cardinality(bookmarks) = 1

\* C13: a call that gives up because another writer holds the store fails
\* with a StorageBusy / timeout-class error.
C13_BusyReportedAsError ==
    \A c \in Callers :
        (rets[c].op \in {"add_bookmark", "delete_bookmark"} /\ rets[c].fault)
            => rets[c].exc # NULL

\* C14: a get_bookmarks or search_bookmarks that hits a storage error gives
\* the caller an error, not the empty result of an empty store.
C14_ReadFaultReported ==
    (last.op \in {"get_bookmarks", "search_bookmarks"} /\ last.fault)
        => last.exc # NULL

\* the tokens of the three searched columns of a row
TextTokens(b) ==
    Tokens(b.title) \cup Tokens(b.description) \cup Tokens(b.content_snippet)

\* C15: search_bookmarks(t) returns exactly the stored bookmarks that hold
\* the token t in title, description or content_snippet, and 'a OR b' the
\* bookmarks that hold a or b.
C15_SearchExactMatches ==
    /\ \A w \in QueryWords :
           search_bookmarks(<<w>>) = {b \in bookmarks : Fold(w) \in TextTokens(b)}
    /\ \A w \in QueryWords : \A v \in QueryWords :
           search_bookmarks(<<w, "OR", v>>) =
               {b \in bookmarks :
                   Fold(w) \in TextTokens(b) \/ Fold(v) \in TextTokens(b)}

\* C16: add_bookmark raises DuplicateBookmarkError only when a bookmark with
\* the same url is stored.
C16_DuplicateOnlyForStoredUrl ==
    (last.op = "add_bookmark" /\ last.exc = "DuplicateBookmarkError")
        => last.args[2] \in StoredUrls

\* C17 (as claimed): add_bookmark never returns an id that an earlier
\* add_bookmark returned, even after that bookmark was deleted.
C17_IdNeverReused ==
    [][(last'.op = "add_bookmark" /\ last'.exc = NULL)
        => last'.ret \notin issued
      ]_vars

\* C17 (amended): add_bookmark never returns the id of a bookmark that is
\* stored at that moment, no two stored bookmarks share an id, and the rows
\* already stored keep their ids.
C17_IdUniqueAmongStored ==
    [][(last'.op = "add_bookmark" /\ last'.exc = NULL)
        => /\ last'.ret \notin Ids(bookmarks)
           /\ bookmarks \subseteq bookmarks'
           /\ \A b1 \in bookmarks' : \A b2 \in bookmarks' :
                 b1.id = b2.id => b1 = b2
      ]_vars

\* an add has returned an id that a deleted bookmark had: the index still
\* holds a term of the old row under that id
C17_Witness ==
    /\ last.op = "add_bookmark"
    /\ last.exc = NULL
    /\ last.ret \in Ids(bookmarks)
    /\ \E p \in fts_index : \E b \in bookmarks :
          p.rowid = last.ret /\ b.id = last.ret /\ p.term \notin TextTokens(b)

\* C18: delete_bookmark(id) removes the row with that id and nothing else:
\* the other rows, their index entries, their associations and every tag
\* stay, and when no bookmark has that id the whole store is unchanged.
C18_DeleteFrame ==
    [][(last'.op = "delete_bookmark")
        => LET id == last'.args[1]
           IN  /\ bookmarks' = {b \in bookmarks : b.id # id}
               /\ \A b \in bookmarks' :
                     /\ {p \in fts_index' : p.rowid = b.id}
                            = {p \in fts_index : p.rowid = b.id}
                     /\ (b.id \in fts_docsize') = (b.id \in fts_docsize)
               /\ {a \in bookmark_tags' : a.bookmark_id # id}
                      = {a \in bookmark_tags : a.bookmark_id # id}
               /\ tags' = tags
               /\ id \notin Ids(bookmarks) => store' = store
      ]_vars

C18_Witness ==
    /\ last.op = "delete_bookmark"
    /\ last.ret = TRUE
    /\ bookmarks # {}
    /\ tags # {}
    /\ \E a \in bookmark_tags : a.bookmark_id \in Ids(bookmarks)

====
